---- MODULE Spec2Model ----
(***************************************************************************)
(* Model of cpu_scaling.py: a command-line tool that disables CPU          *)
(* frequency scaling (snapshot the per-core governors to a JSON file, then *)
(* force every core to "performance") and re-enables it (replay the        *)
(* snapshot per core, or apply one named governor to all cores).           *)
(*                                                                         *)
(* The machine (per-core governors, supported governors) and the snapshot  *)
(* file persist between invocations; one invocation of main() runs at a    *)
(* time, one step per external effect (subprocess call or file access).    *)
(***************************************************************************)
EXTENDS Integers, Sequences, FiniteSets, TLC

----------------------------------------------------------------------------
(* Bounds of the model *)

MaxCores == 2

----------------------------------------------------------------------------
(* GovMode and the machine *)

\* class GovMode(enum.Enum): the six governor names, in declaration order
GovMode == <<"performance", "powersave", "userspace", "ondemand", "conservative", "schedutil">>

\* the governor names the model ranges over: the disable target and one other
Govs == {GovMode[1], GovMode[2]}

\* the names a snapshot file found on disk may hold: those, and one that this
\* machine never supports (a file written under another scaling driver)
FileGovs == Govs \cup {GovMode[3]}

\* n_cpu: int = None, the all-cores scope of set_cpu_governor_mode
NoCpu == -1

\* args.mode when --mode is not given (None)
NoMode == ""

VARIABLES
    gov,        \* machine: gov[i+1] is the governor of core i
    supported,  \* machine: the set in scaling_available_governors
    fileExists, \* RESTORE_PATH exists
    fileDoc,    \* content of RESTORE_PATH, a sequence of JSON tokens
    args,       \* the parsed command line of the running invocation
    pc,         \* position of the running invocation in main()
    status,     \* how the invocation ended (or "running")
    settings,   \* local: list read by get_current_settings / json.load
    idx,        \* local: n_cpu of the enumerate loop in recall_current_settings
    curMode,    \* parameter mode of set_cpu_governor_mode
    curCpu,     \* parameter n_cpu of set_cpu_governor_mode
    calls,      \* external effects issued by the running invocation, in order
    govBefore,  \* gov when the running invocation started
    fileBefore, \* <<fileExists, fileDoc>> when the running invocation started
    killedAt,   \* pc at which the invocation was killed ("" if it was not)
    prev        \* summary of the invocation before the running one

vars == <<gov, supported, fileExists, fileDoc, args, pc, status, settings, idx,
          curMode, curCpu, calls, govBefore, fileBefore, killedAt, prev>>

machine == <<gov, supported>>
snapfile == <<fileExists, fileDoc>>
locals == <<settings, idx, curMode, curCpu>>
history == <<govBefore, fileBefore, prev>>

----------------------------------------------------------------------------
(* Sequences *)

Last(s) == s[Len(s)]

RECURSIVE SeqsOf(_, _)
\* all sequences of length n over set S
SeqsOf(S, n) == IF n = 0 THEN {<<>>}
                ELSE {Append(s, x) : s \in SeqsOf(S, n - 1), x \in S}

InSeq(x, s) == \E i \in 1..Len(s) : s[i] = x

----------------------------------------------------------------------------
(* json.dump(list, f, indent=4) and json.load(f) on a list of strings *)

TokLB == [t |-> "[", v |-> ""]
TokRB == [t |-> "]", v |-> ""]
TokComma == [t |-> ",", v |-> ""]
TokNL == [t |-> "ws", v |-> ""]
TokStr(s) == [t |-> "str", v |-> s]

RECURSIVE JsonItems(_, _)
JsonItems(list, i) ==
    IF i > Len(list) THEN <<>>
    ELSE (IF i > 1 THEN <<TokComma>> ELSE <<>>) \o <<TokNL, TokStr(list[i])>>
         \o JsonItems(list, i + 1)

\* json.dump with indent=4: "[]" for the empty list, else one item per line
JsonDump(list) ==
    IF Len(list) = 0 THEN <<TokLB, TokRB>>
    ELSE <<TokLB>> \o JsonItems(list, 1) \o <<TokNL, TokRB>>

IsWs(tok) == tok.t = "ws"
NotWs(tok) == ~IsWs(tok)

\* the document is a well-formed JSON list of strings
JsonWellFormed(doc) ==
    LET d == SelectSeq(doc, NotWs)
        n == Len(d)
    IN  /\ n >= 2
        /\ d[1] = TokLB
        /\ d[n] = TokRB
        /\ \/ n = 2
           \/ /\ n % 2 = 1
              /\ \A k \in 2..(n - 1) :
                    IF k % 2 = 0 THEN d[k].t = "str" ELSE d[k] = TokComma

\* a loader that takes the tokens before the strings
JsonLoad_off_by_one(doc) ==
    LET d == SelectSeq(doc, NotWs)
    IN  [k \in 1..((Len(d) - 1) \div 2) |-> d[2 * k - 1].v]

\* json.load: the list of the strings of a well-formed document
JsonLoad(doc) ==
    LET d == SelectSeq(doc, NotWs)
    IN  [k \in 1..((Len(d) - 1) \div 2) |-> d[2 * k].v]

----------------------------------------------------------------------------
(* The external commands' output and the code's parsing of it *)

ProcHeader == <<"minimum", "-", "maximum", "-", "governor">>

\* stdout of `cpupower frequency-info -o proc`: a header line, then a line per core
ProcOutput(g) == <<ProcHeader>> \o [i \in 1..Len(g) |-> <<"CPU", "-", g[i]>>]

\* the parse without the [1:] slice: the header line is taken for a core
get_current_settings_with_header(out) == [i \in 1..Len(out) |-> Last(out[i])]

\* [line.split()[-1] for line in out.splitlines()[1:]]
get_current_settings(out) ==
    LET body == IF Len(out) = 0 THEN <<>> ELSE Tail(out)
    IN  [i \in 1..Len(body) |-> Last(body[i])]

IsSupported(g) == g \in supported

\* stdout of `cat .../scaling_available_governors`: one line of names
AvailableOutput == <<SelectSeq(GovMode, IsSupported)>>

\* [line.split() for line in out.splitlines()][0]
get_supported_settings(out) == out[1]

----------------------------------------------------------------------------
(* Initial state: a machine with 0..MaxCores cores, each running a governor *)
(* the hardware supports; no snapshot file, or one holding one name per core *)

\* cmd, status, govBefore, killedAt, settings: of that invocation; sets: its
\* set-governor calls; streak: how many completed disable runs in a row it ends
\* (counted up to two); first: gov before the first disable of that streak
NoRun == [cmd |-> "none", status |-> "none", govBefore |-> <<>>, killedAt |-> "",
          settings |-> <<>>, sets |-> <<>>,
          streak |-> 0, first |-> <<>>]

NoArgs == [enable |-> FALSE, disable |-> FALSE, mode |-> NoMode]

Init ==
    /\ supported \in SUBSET Govs
    /\ \E n \in 0..MaxCores : gov \in SeqsOf(supported, n)
    /\ \/ fileExists = FALSE /\ fileDoc = <<>>
       \/ fileExists = TRUE /\ \E s \in SeqsOf(FileGovs, Len(gov)) : fileDoc = JsonDump(s)
    /\ args = NoArgs
    /\ pc = "idle"
    /\ status = "idle"
    /\ settings = <<>>
    /\ idx = 0
    /\ curMode = NoMode
    /\ curCpu = NoCpu
    /\ calls = <<>>
    /\ govBefore = gov
    /\ fileBefore = <<fileExists, fileDoc>>
    /\ killedAt = ""
    /\ prev = NoRun

----------------------------------------------------------------------------
(* Helpers of the actions *)

\* which workflow main() takes for the parsed arguments (lines 81-92)
Cmd(a) ==
    IF a.enable = a.disable THEN "usage"
    ELSE IF a.disable THEN "disable"
    ELSE IF a.mode # NoMode THEN "enable_mode"
    ELSE "restore"

\* one entry of the log of external effects: the operation, and for a query or
\* a set the scope and governor of the set_cpu_governor_mode call it belongs to
Call(op, cpu, g, res) == [op |-> op, cpu |-> cpu, gov |-> g, res |-> res]

\* what a call that raised left in place of a result: subprocess.run(check=True)
\* raises CalledProcessError, json.load raises JSONDecodeError
Raised(exc) == <<exc>>

IsSet(c) == c.op = "set"

\* the set-governor calls of the running invocation, in the order issued
SetCalls == SelectSeq(calls, IsSet)

\* sys.exit(message), an uncaught exception, or falling off the end of main()
Exit(st) == pc' = "done" /\ status' = st

\* cpupower run without its --cpu argument: every core is set
ApplyGovernor_all_cores(g, cpu, mode) == [i \in 1..Len(g) |-> mode]

\* cpupower [--cpu n] frequency-set -g mode, on the machine
ApplyGovernor(g, cpu, mode) ==
    IF cpu = NoCpu THEN [i \in 1..Len(g) |-> mode]
    ELSE [i \in 1..Len(g) |-> IF i = cpu + 1 THEN mode ELSE g[i]]

----------------------------------------------------------------------------
(* One invocation of the tool *)

\* the operator runs the tool with some command line
Start(en, dis, m) ==
    /\ pc \in {"idle", "done"}
    /\ prev' = IF pc = "idle" THEN NoRun
               ELSE [cmd |-> Cmd(args), status |-> status,
                     govBefore |-> govBefore, killedAt |-> killedAt,
                     settings |-> settings, sets |-> SetCalls,
                     streak |-> IF Cmd(args) = "disable" /\ status = "ok"
                                THEN (IF prev.streak = 0 THEN 1 ELSE 2)
                                ELSE 0,
                     first |-> IF Cmd(args) = "disable" /\ status = "ok"
                               THEN (IF prev.streak = 0 THEN govBefore ELSE prev.first)
                               ELSE <<>>]
    /\ args' = [enable |-> en, disable |-> dis, mode |-> m]
    /\ pc' = "parse_args"
    /\ status' = "running"
    /\ settings' = <<>>
    /\ idx' = 0
    /\ curMode' = NoMode
    /\ curCpu' = NoCpu
    /\ calls' = <<>>
    /\ govBefore' = gov
    /\ fileBefore' = <<fileExists, fileDoc>>
    /\ killedAt' = ""
    /\ UNCHANGED <<machine, snapfile>>

\* parse_args with a plain, optional group: any combination of flags is accepted
parse_args_not_exclusive ==
    /\ pc = "parse_args"
    /\ pc' = "main"
    /\ UNCHANGED <<machine, snapfile, args, status, locals, calls, history, killedAt>>

\* parse_args: the mutually exclusive, required group of --enable / --disable
parse_args ==
    /\ pc = "parse_args"
    /\ IF args.enable = args.disable
       THEN Exit("usage")
       ELSE pc' = "main" /\ status' = status
    /\ UNCHANGED <<machine, snapfile, args, locals, calls, history, killedAt>>

\* main with the two statements of the disable branch swapped
main_apply_first ==
    /\ pc = "main"
    /\ IF args.disable
       THEN pc' = "set_query" /\ curMode' = "performance" /\ curCpu' = NoCpu
       ELSE IF args.mode # NoMode
            THEN pc' = "set_query" /\ curMode' = args.mode /\ curCpu' = NoCpu
            ELSE pc' = "recall_exists" /\ UNCHANGED <<curMode, curCpu>>
    /\ UNCHANGED <<machine, snapfile, args, status, settings, idx, calls, history, killedAt>>

\* main with the enable branch recalling the snapshot whatever args.mode is
main_ignores_mode ==
    /\ pc = "main"
    /\ IF args.disable
       THEN pc' = "save_open"
       ELSE pc' = "recall_exists"
    /\ UNCHANGED <<machine, snapfile, args, status, locals, calls, history, killedAt>>

\* main with a disable branch that keeps a snapshot file it finds
main_keeps_snapshot ==
    /\ pc = "main"
    /\ IF args.disable
       THEN IF fileExists
            THEN pc' = "set_query" /\ curMode' = "performance" /\ curCpu' = NoCpu
            ELSE pc' = "save_open" /\ UNCHANGED <<curMode, curCpu>>
       ELSE IF args.mode # NoMode
            THEN pc' = "set_query" /\ curMode' = args.mode /\ curCpu' = NoCpu
            ELSE pc' = "recall_exists" /\ UNCHANGED <<curMode, curCpu>>
    /\ UNCHANGED <<machine, snapfile, args, status, settings, idx, calls, history, killedAt>>

\* main: the if / elif / else of lines 81-92
main ==
    /\ pc = "main"
    /\ IF args.disable
       THEN pc' = "save_open" /\ UNCHANGED <<curMode, curCpu>>
       ELSE IF args.mode # NoMode
            THEN pc' = "set_query" /\ curMode' = args.mode /\ curCpu' = NoCpu
            ELSE pc' = "recall_exists" /\ UNCHANGED <<curMode, curCpu>>
    /\ UNCHANGED <<machine, snapfile, args, status, settings, idx, calls, history, killedAt>>

\* save_current_settings: fpath.open("w") creates or truncates the file
save_open ==
    /\ pc = "save_open"
    /\ fileExists' = TRUE
    /\ fileDoc' = <<>>
    /\ calls' = Append(calls, Call("open_w", NoCpu, "", <<>>))
    /\ pc' = "save_read"
    /\ UNCHANGED <<machine, args, status, locals, history, killedAt>>

\* save_current_settings: the argument get_current_settings() of json.dump
save_read(ok) ==
    /\ pc = "save_read"
    /\ IF ok
       THEN /\ calls' = Append(calls, Call("read_current", NoCpu, "", <<>>))
            /\ settings' = get_current_settings(ProcOutput(gov))
            /\ pc' = "save_dump"
            /\ status' = status
       ELSE /\ calls' = Append(calls, Call("read_current", NoCpu, "",
                                           Raised("CalledProcessError")))
            /\ Exit("failed")
            /\ settings' = settings
    /\ UNCHANGED <<machine, snapfile, args, idx, curMode, curCpu, history, killedAt>>

\* save_current_settings without the with block: the dumped text stays in the
\* file object's buffer and reaches the file only when the process exits
save_dump_unflushed ==
    /\ pc = "save_dump"
    /\ UNCHANGED snapfile
    /\ calls' = Append(calls, Call("write", NoCpu, "", <<>>))
    /\ curMode' = "performance"
    /\ curCpu' = NoCpu
    /\ pc' = "set_query"
    /\ UNCHANGED <<machine, args, status, settings, idx, history, killedAt>>

\* a disable that validates "performance" before it dumps the settings
save_dump_checks_first ==
    /\ pc = "save_dump"
    /\ IF IsSupported("performance")
       THEN /\ fileDoc' = JsonDump(settings)
            /\ fileExists' = fileExists
            /\ calls' = Append(calls, Call("write", NoCpu, "", <<>>))
            /\ curMode' = "performance"
            /\ curCpu' = NoCpu
            /\ pc' = "set_query"
            /\ status' = status
       ELSE /\ calls' = Append(calls, Call("query", NoCpu, "performance",
                                           get_supported_settings(AvailableOutput)))
            /\ Exit("unsupported")
            /\ UNCHANGED <<snapfile, curMode, curCpu>>
    /\ UNCHANGED <<machine, args, settings, idx, history, killedAt>>

\* save_current_settings: json.dump and the close of the with block; then
\* main calls set_cpu_governor_mode("performance")
save_dump ==
    /\ pc = "save_dump"
    /\ fileDoc' = JsonDump(settings)
    /\ fileExists' = fileExists
    /\ calls' = Append(calls, Call("write", NoCpu, "", <<>>))
    /\ curMode' = "performance"
    /\ curCpu' = NoCpu
    /\ pc' = "set_query"
    /\ UNCHANGED <<machine, args, status, settings, idx, history, killedAt>>

\* set_cpu_governor_mode with the membership test dropped
set_query_unchecked(ok) ==
    /\ pc = "set_query"
    /\ LET res == get_supported_settings(AvailableOutput)
       IN  IF ok
           THEN /\ calls' = Append(calls, Call("query", curCpu, curMode, res))
                /\ pc' = "set_run"
                /\ status' = status
           ELSE /\ calls' = Append(calls, Call("query_failed", curCpu, curMode, <<>>))
                /\ Exit("failed")
    /\ UNCHANGED <<machine, snapfile, args, locals, history, killedAt>>

\* set_cpu_governor_mode testing against the list of the invocation's first
\* query: later applies issue no query of their own
set_query_cached(ok) ==
    /\ pc = "set_query"
    /\ LET res == get_supported_settings(AvailableOutput)
           cached == \E i \in 1..Len(calls) : calls[i].op = "query"
       IN  IF ok \/ cached
           THEN /\ calls' = IF cached THEN calls
                            ELSE Append(calls, Call("query", curCpu, curMode, res))
                /\ IF ~InSeq(curMode, res)
                   THEN Exit("unsupported")
                   ELSE pc' = "set_run" /\ status' = status
           ELSE /\ calls' = Append(calls, Call("query_failed", curCpu, curMode, <<>>))
                /\ Exit("failed")
    /\ UNCHANGED <<machine, snapfile, args, locals, history, killedAt>>

\* set_cpu_governor_mode: if mode not in get_supported_settings(): sys.exit(...)
set_query(ok) ==
    /\ pc = "set_query"
    /\ LET res == get_supported_settings(AvailableOutput)
       IN  IF ok
           THEN /\ calls' = Append(calls, Call("query", curCpu, curMode, res))
                /\ IF ~InSeq(curMode, res)
                   THEN Exit("unsupported")
                   ELSE pc' = "set_run" /\ status' = status
           ELSE /\ calls' = Append(calls, Call("query_failed", curCpu, curMode, <<>>))
                /\ Exit("failed")
    /\ UNCHANGED <<machine, snapfile, args, locals, history, killedAt>>

\* set_cpu_governor_mode with check=False: a failed cpupower run is ignored
set_run_unchecked(ok) ==
    /\ pc = "set_run"
    /\ ok => (curCpu = NoCpu \/ curCpu < Len(gov))
    /\ calls' = Append(calls, Call("set", curCpu, curMode,
                                   IF ok THEN <<>> ELSE Raised("CalledProcessError")))
    /\ gov' = IF ok THEN ApplyGovernor(gov, curCpu, curMode) ELSE gov
    /\ IF curCpu = NoCpu
       THEN Exit("ok") /\ idx' = idx
       ELSE pc' = "recall_loop" /\ idx' = idx + 1 /\ status' = status
    /\ UNCHANGED <<supported, snapfile, args, settings, curMode, curCpu, history, killedAt>>

\* set_cpu_governor_mode: subprocess.run of cpupower frequency-set, check=True;
\* then return to the caller (the loop of recall_current_settings, or main's end)
set_run(ok) ==
    /\ pc = "set_run"
    /\ ok => (curCpu = NoCpu \/ curCpu < Len(gov))
    /\ IF ok
       THEN /\ calls' = Append(calls, Call("set", curCpu, curMode, <<>>))
            /\ gov' = ApplyGovernor(gov, curCpu, curMode)
            /\ IF curCpu = NoCpu
               THEN Exit("ok") /\ idx' = idx
               ELSE pc' = "recall_loop" /\ idx' = idx + 1 /\ status' = status
       ELSE /\ calls' = Append(calls, Call("set", curCpu, curMode,
                                           Raised("CalledProcessError")))
            /\ gov' = gov
            /\ idx' = idx
            /\ Exit("failed")
    /\ UNCHANGED <<supported, snapfile, args, settings, curMode, curCpu, history, killedAt>>

\* recall_current_settings without the fpath.exists() test
recall_exists_unchecked ==
    /\ pc = "recall_exists"
    /\ calls' = Append(calls, Call("exists", NoCpu, "", <<>>))
    /\ pc' = "recall_load"
    /\ UNCHANGED <<machine, snapfile, args, status, locals, history, killedAt>>

\* recall_current_settings: if not fpath.exists(): sys.exit(...)
recall_exists ==
    /\ pc = "recall_exists"
    /\ calls' = Append(calls, Call("exists", NoCpu, "", <<>>))
    /\ IF ~fileExists
       THEN Exit("notfound")
       ELSE pc' = "recall_load" /\ status' = status
    /\ UNCHANGED <<machine, snapfile, args, locals, history, killedAt>>

\* recall_current_settings validating every loaded entry before the loop
recall_load_validates ==
    /\ pc = "recall_load"
    /\ IF JsonWellFormed(fileDoc)
       THEN /\ calls' = Append(calls, Call("open_r", NoCpu, "", <<>>))
            /\ settings' = JsonLoad(fileDoc)
            /\ idx' = 0
            /\ IF \A i \in 1..Len(JsonLoad(fileDoc)) : JsonLoad(fileDoc)[i] \in supported
               THEN pc' = "recall_loop" /\ status' = status
               ELSE Exit("unsupported")
       ELSE /\ calls' = Append(calls, Call("open_r", NoCpu, "",
                                           Raised("JSONDecodeError")))
            /\ Exit("failed")
            /\ UNCHANGED <<settings, idx>>
    /\ UNCHANGED <<machine, snapfile, args, curMode, curCpu, history, killedAt>>

\* recall_current_settings: fpath.open() and json.load(f)
recall_load ==
    /\ pc = "recall_load"
    /\ IF JsonWellFormed(fileDoc)
       THEN /\ calls' = Append(calls, Call("open_r", NoCpu, "", <<>>))
            /\ settings' = JsonLoad(fileDoc)
            /\ idx' = 0
            /\ pc' = "recall_loop"
            /\ status' = status
       ELSE /\ calls' = Append(calls, Call("open_r", NoCpu, "",
                                           Raised("JSONDecodeError")))
            /\ Exit("failed")
            /\ UNCHANGED <<settings, idx>>
    /\ UNCHANGED <<machine, snapfile, args, curMode, curCpu, history, killedAt>>

\* recall_current_settings with enumerate(settings, 1)
recall_loop_from_one ==
    /\ pc = "recall_loop"
    /\ IF idx < Len(settings)
       THEN /\ curMode' = settings[idx + 1]
            /\ curCpu' = idx + 1
            /\ pc' = "set_query"
            /\ status' = status
       ELSE /\ Exit("ok")
            /\ UNCHANGED <<curMode, curCpu>>
    /\ UNCHANGED <<machine, snapfile, args, settings, idx, calls, history, killedAt>>

\* recall_current_settings removing the snapshot file once it is replayed
recall_loop_consumes_snapshot ==
    /\ pc = "recall_loop"
    /\ IF idx < Len(settings)
       THEN /\ curMode' = settings[idx + 1]
            /\ curCpu' = idx
            /\ pc' = "set_query"
            /\ status' = status
            /\ UNCHANGED snapfile
       ELSE /\ Exit("ok")
            /\ fileExists' = FALSE
            /\ fileDoc' = <<>>
            /\ UNCHANGED <<curMode, curCpu>>
    /\ UNCHANGED <<machine, args, settings, idx, calls, history, killedAt>>

\* recall_current_settings: for n_cpu, setting in enumerate(settings)
recall_loop ==
    /\ pc = "recall_loop"
    /\ IF idx < Len(settings)
       THEN /\ curMode' = settings[idx + 1]
            /\ curCpu' = idx
            /\ pc' = "set_query"
            /\ status' = status
       ELSE /\ Exit("ok")
            /\ UNCHANGED <<curMode, curCpu>>
    /\ UNCHANGED <<machine, snapfile, args, settings, idx, calls, history, killedAt>>

\* the process is killed between two steps
Kill ==
    /\ pc \notin {"idle", "done"}
    /\ killedAt' = pc
    /\ Exit("killed")
    /\ UNCHANGED <<machine, snapfile, args, locals, calls, history>>

\* the command lines tried: --mode is given only with --enable alone, the one
\* case in which main reads args.mode
CommandLines ==
    {a \in [enable : BOOLEAN, disable : BOOLEAN, mode : {NoMode} \cup Govs] :
        a.mode # NoMode => (a.enable /\ ~a.disable)}

Next ==
    \/ \E a \in CommandLines : Start(a.enable, a.disable, a.mode)
    \/ parse_args
    \/ main
    \/ save_open
    \/ \E ok \in BOOLEAN : save_read(ok)
    \/ save_dump
    \/ \E ok \in BOOLEAN : set_query(ok)
    \/ \E ok \in BOOLEAN : set_run(ok)
    \/ recall_exists
    \/ recall_load
    \/ recall_loop
    \/ Kill

Spec == Init /\ [][Next]_vars

----------------------------------------------------------------------------
(* Vocabulary of the properties *)

IsQuery(c) == c.op = "query"

HasCall(op) == \E i \in 1..Len(calls) : calls[i].op = op

SeqToSet(s) == {s[i] : i \in 1..Len(s)}

AllPerformance == [i \in 1..Len(gov) |-> "performance"]

\* the invocation ended by itself: it was not killed
Ended == pc = "done" /\ status # "killed"

----------------------------------------------------------------------------
(* C1: validation gate.  A query that does not list the governor being     *)
(* applied is the last external effect of the invocation, which has ended  *)
(* with the unsupported-governor error; and every set-governor call comes  *)
(* directly after the query of its own apply, carries the same scope and   *)
(* governor, and that governor is in the set the query returned, which is  *)
(* the hardware's supported set.                                           *)
C1_ValidationGate ==
    /\ \A i \in 1..Len(calls) :
          (calls[i].op = "query" /\ ~InSeq(calls[i].gov, calls[i].res)) =>
              /\ i = Len(calls)
              /\ pc = "done"
              /\ status = "unsupported"
    /\ \A i \in 1..Len(calls) :
          calls[i].op = "set" =>
              /\ i > 1
              /\ calls[i - 1].op = "query"
              /\ calls[i - 1].gov = calls[i].gov
              /\ calls[i - 1].cpu = calls[i].cpu
              /\ InSeq(calls[i].gov, calls[i - 1].res)
              /\ SeqToSet(calls[i - 1].res) = supported
    /\ status = "unsupported" =>
          /\ Len(calls) > 0
          /\ calls[Len(calls)].op = "query"
          /\ calls[Len(calls)].gov \notin supported

\* a restore applied one core and was then refused an unsupported governor
C1_Witness ==
    /\ pc = "done"
    /\ status = "unsupported"
    /\ curCpu # NoCpu
    /\ Len(SetCalls) > 0

----------------------------------------------------------------------------
(* C2: disable ordering.  In a disable run every set-governor call is      *)
(* preceded by the current-settings read and, after it, the snapshot       *)
(* write; and whenever the run is about to issue or has issued the         *)
(* performance apply, the snapshot file holds the settings this run read.  *)
C2_DisableOrdering ==
    Cmd(args) = "disable" =>
        /\ \A i \in 1..Len(calls) :
              calls[i].op = "set" =>
                  \E j \in 1..(i - 1), k \in 1..(i - 1) :
                      /\ j < k
                      /\ calls[j].op = "read_current"
                      /\ calls[k].op = "write"
        /\ (pc = "set_run" \/ HasCall("set")) =>
              /\ fileExists
              /\ fileDoc = JsonDump(settings)
              /\ settings = govBefore

\* a disable run changed the governors of a machine
C2_Witness ==
    /\ Cmd(args) = "disable"
    /\ pc = "done"
    /\ status = "ok"
    /\ HasCall("set")
    /\ gov # govBefore

----------------------------------------------------------------------------
(* C3: restore fidelity.  In an enable run without mode that found a       *)
(* snapshot of supported governors s, the set-governor calls issued so far *)
(* are (core 0, s[0]), (core 1, s[1]), ... in that order, each single-core,*)
(* none all-cores; the run refuses nothing, and when it completes it has   *)
(* issued exactly one call per entry of s.                                 *)
C3_RestoreFidelity ==
    (/\ Cmd(args) = "restore"
     /\ fileBefore[1]
     /\ JsonWellFormed(fileBefore[2])
     /\ SeqToSet(JsonLoad(fileBefore[2])) \subseteq supported) =>
        LET s == JsonLoad(fileBefore[2])
        IN  /\ Len(SetCalls) <= Len(s)
            /\ \A k \in 1..Len(SetCalls) :
                  /\ SetCalls[k].cpu = k - 1
                  /\ SetCalls[k].cpu # NoCpu
                  /\ SetCalls[k].gov = s[k]
            /\ status \notin {"unsupported", "notfound", "usage"}
            /\ status = "ok" => Len(SetCalls) = Len(s)

\* a completed restore of a snapshot of two different governors
C3_Witness ==
    /\ Cmd(args) = "restore"
    /\ pc = "done"
    /\ status = "ok"
    /\ Len(SetCalls) >= 2
    /\ SetCalls[1].gov # SetCalls[2].gov

----------------------------------------------------------------------------
(* C4: explicit-mode enable bypasses the snapshot.  An enable run with     *)
(* mode g never tests, reads or writes the snapshot file, which stays as   *)
(* it was; its only set-governor call is the all-cores call with g; with g *)
(* supported it is never refused, and when it completes it has issued      *)
(* exactly that one call and every core runs g.                            *)
C4_ExplicitModeBypassesSnapshot ==
    Cmd(args) = "enable_mode" =>
        /\ \A i \in 1..Len(calls) : calls[i].op \in {"query", "query_failed", "set"}
        /\ <<fileExists, fileDoc>> = fileBefore
        /\ Len(SetCalls) <= 1
        /\ \A k \in 1..Len(SetCalls) :
              SetCalls[k].cpu = NoCpu /\ SetCalls[k].gov = args.mode
        /\ status \notin {"notfound", "usage"}
        /\ args.mode \in supported => status # "unsupported"
        /\ status = "ok" =>
              /\ Len(SetCalls) = 1
              /\ Len(SelectSeq(calls, IsQuery)) = 1
              /\ \A i \in 1..Len(gov) : gov[i] = args.mode

\* enable with a mode completed on a machine that has no snapshot file
C4_Witness ==
    /\ Cmd(args) = "enable_mode"
    /\ pc = "done"
    /\ status = "ok"
    /\ ~fileExists
    /\ gov # govBefore

----------------------------------------------------------------------------
(* C5: missing snapshot.  An enable run without mode started when no       *)
(* snapshot file exists issues no supported-governor query and no          *)
(* set-governor call, never gets past the existence test, leaves every     *)
(* core's governor unchanged, and ends with the snapshot-not-found error.  *)
C5_MissingSnapshot ==
    (Cmd(args) = "restore" /\ ~fileBefore[1]) =>
        /\ \A i \in 1..Len(calls) : calls[i].op = "exists"
        /\ pc \in {"parse_args", "main", "recall_exists", "done"}
        /\ gov = govBefore
        /\ Ended => status = "notfound"

\* the restore of a machine with cores and no snapshot file has ended
C5_Witness ==
    /\ Cmd(args) = "restore"
    /\ ~fileBefore[1]
    /\ Ended
    /\ HasCall("exists")
    /\ Len(gov) > 0

----------------------------------------------------------------------------
(* C6: disable then restore recovers the pre-disable state.  When an       *)
(* enable run without mode completes directly after a completed disable    *)
(* run, every core has the governor it had immediately before the disable. *)
C6_DisableThenRestore ==
    (/\ Cmd(args) = "restore"
     /\ pc = "done"
     /\ status = "ok"
     /\ prev.cmd = "disable"
     /\ prev.status = "ok") =>
        /\ Len(gov) = Len(prev.govBefore)
        /\ \A i \in 1..Len(gov) : gov[i] = prev.govBefore[i]

\* such a pair of runs on two cores that had different governors
C6_Witness ==
    /\ Cmd(args) = "restore"
    /\ pc = "done"
    /\ status = "ok"
    /\ prev.cmd = "disable"
    /\ prev.status = "ok"
    /\ Len(prev.govBefore) >= 2
    /\ prev.govBefore[1] # prev.govBefore[2]
    /\ Len(SetCalls) = Len(gov)

----------------------------------------------------------------------------
(* C7: round trip of the snapshot file.  Once a disable run has written    *)
(* the file, loading the file yields the sequence the run read, one entry  *)
(* per core; and the sequence an enable run without mode has loaded and    *)
(* replays is, position by position, the sequence read by the preceding    *)
(* disable run that wrote the file.                                        *)
PrevWrote ==
    /\ prev.cmd = "disable"
    /\ \/ prev.status \in {"ok", "unsupported"}
       \/ prev.status = "killed" /\ prev.killedAt \in {"set_query", "set_run"}

C7_SnapshotRoundTrip ==
    /\ (Cmd(args) = "disable" /\ HasCall("write")) =>
          /\ JsonWellFormed(fileDoc)
          /\ JsonLoad(fileDoc) = settings
          /\ Len(JsonLoad(fileDoc)) = Len(govBefore)
    /\ (Cmd(args) = "restore" /\ pc \in {"recall_loop", "set_query", "set_run"}
            /\ PrevWrote) =>
          /\ Len(settings) = Len(prev.settings)
          /\ \A i \in 1..Len(settings) : settings[i] = prev.settings[i]

\* a restore has loaded what the disable before it read from two cores
C7_Witness ==
    /\ Cmd(args) = "restore"
    /\ pc = "recall_loop"
    /\ PrevWrote
    /\ Len(settings) >= 2
    /\ settings[1] # settings[2]
    /\ settings = prev.govBefore

----------------------------------------------------------------------------
(* C8: an empty current-settings read is fatal.  A disable run whose read  *)
(* of the current settings yields zero entries neither writes the snapshot *)
(* file nor applies "performance", and does not complete successfully.     *)
C8_EmptyReadIsFatal ==
    (Cmd(args) = "disable" /\ Len(settings) = 0) =>
        /\ ~HasCall("write")
        /\ ~HasCall("set")
        /\ status # "ok"

----------------------------------------------------------------------------
(* C9: repeated disable overwrites the snapshot.  A disable run directly   *)
(* after a completed disable run is not refused; when it completes, the    *)
(* snapshot file holds "performance" for every core; and an enable run     *)
(* without mode that completes after two completed disable runs in a row   *)
(* leaves every core at "performance", whatever the cores ran before the   *)
(* first disable.                                                          *)
C9_RepeatedDisableOverwrites ==
    /\ (Cmd(args) = "disable" /\ prev.cmd = "disable" /\ prev.status = "ok") =>
          /\ status \notin {"usage", "unsupported", "notfound"}
          /\ (pc = "done" /\ status = "ok") =>
                /\ fileExists
                /\ fileDoc = JsonDump(AllPerformance)
                /\ gov = AllPerformance
    /\ (Cmd(args) = "restore" /\ pc = "done" /\ status = "ok" /\ prev.streak = 2) =>
          /\ gov = AllPerformance
          /\ Len(SetCalls) = Len(gov)
          /\ (prev.first # AllPerformance) => gov # prev.first

\* cores that did not all run "performance" were disabled twice and restored
C9_Witness ==
    /\ Cmd(args) = "restore"
    /\ pc = "done"
    /\ status = "ok"
    /\ prev.streak = 2
    /\ Len(gov) > 0
    /\ prev.first # AllPerformance

----------------------------------------------------------------------------
(* C10: a crash between the two steps of disable is benign.  When a        *)
(* disable run is killed after its snapshot write and before its           *)
(* performance apply, the snapshot file exists and holds the governors     *)
(* the cores still have, which are the pre-disable ones; a following       *)
(* enable run without mode is not refused, and when it completes every     *)
(* core has the governor it had before that enable.                        *)
KilledBetweenSteps(r) ==
    /\ r.cmd = "disable"
    /\ r.status = "killed"
    /\ r.killedAt \in {"set_query", "set_run"}

C10_CrashBetweenStepsBenign ==
    /\ (pc = "done" /\ KilledBetweenSteps([cmd |-> Cmd(args), status |-> status,
                                           killedAt |-> killedAt])) =>
          /\ fileExists
          /\ JsonWellFormed(fileDoc)
          /\ JsonLoad(fileDoc) = gov
          /\ gov = govBefore
          /\ ~HasCall("set")
    /\ (Cmd(args) = "restore" /\ KilledBetweenSteps(prev)) =>
          /\ status \notin {"usage", "unsupported", "notfound"}
          /\ gov = govBefore
          /\ gov = prev.govBefore
          /\ (pc = "done" /\ status = "ok") => Len(SetCalls) = Len(gov)

\* a restore completed on a machine whose disable had been killed midway
C10_Witness ==
    /\ Cmd(args) = "restore"
    /\ pc = "done"
    /\ status = "ok"
    /\ KilledBetweenSteps(prev)
    /\ Len(gov) >= 2
    /\ gov[1] # gov[2]
    /\ Len(SetCalls) = Len(gov)

----------------------------------------------------------------------------
(* C11: disable postcondition.  A disable run on a machine that supports   *)
(* "performance" is never refused; when it completes, the snapshot file    *)
(* holds exactly the governors the cores had before the run, one entry per *)
(* core in core order, the run has issued exactly one set-governor call,   *)
(* the all-cores call with "performance", and every core runs              *)
(* "performance".                                                          *)
C11_DisablePostcondition ==
    Cmd(args) = "disable" =>
        /\ "performance" \in supported => status \notin {"unsupported", "notfound", "usage"}
        /\ (pc = "done" /\ status = "ok") =>
              /\ "performance" \in supported
              /\ fileExists
              /\ fileDoc = JsonDump(govBefore)
              /\ JsonWellFormed(fileDoc)
              /\ Len(JsonLoad(fileDoc)) = Len(govBefore)
              /\ \A i \in 1..Len(govBefore) : JsonLoad(fileDoc)[i] = govBefore[i]
              /\ Len(SetCalls) = 1
              /\ SetCalls[1].cpu = NoCpu
              /\ SetCalls[1].gov = "performance"
              /\ Len(gov) = Len(govBefore)
              /\ \A i \in 1..Len(gov) : gov[i] = "performance"

\* a completed disable of two cores that ran different governors
C11_Witness ==
    /\ Cmd(args) = "disable"
    /\ pc = "done"
    /\ status = "ok"
    /\ Len(govBefore) >= 2
    /\ govBefore[1] # govBefore[2]
    /\ gov = AllPerformance

----------------------------------------------------------------------------
(* C12: only disable writes the snapshot file.  An enable run, with or     *)
(* without mode, leaves the file's existence and content as they were; a   *)
(* disable run that has reached its snapshot write leaves the file holding *)
(* what it read; and when an invocation that did not reach a snapshot      *)
(* write has ended after a disable run that did, the file, if it exists,   *)
(* still holds what that disable run read.                                 *)
ReachedWrite == Cmd(args) = "disable" /\ HasCall("write")

C12_OnlyDisableWritesSnapshot ==
    /\ Cmd(args) \in {"restore", "enable_mode"} => <<fileExists, fileDoc>> = fileBefore
    /\ ReachedWrite =>
          /\ fileExists
          /\ JsonWellFormed(fileDoc)
          /\ JsonLoad(fileDoc) = settings
    /\ (Ended /\ ~ReachedWrite /\ PrevWrote /\ fileExists) =>
          /\ JsonWellFormed(fileDoc)
          /\ JsonLoad(fileDoc) = prev.settings

----------------------------------------------------------------------------
(* C13: usage errors touch no state.  An invocation with both or neither   *)
(* of --enable and --disable issues no external query, no set-governor     *)
(* call and no snapshot-file access, changes neither the governors nor the *)
(* file, never gets past the argument parser, and ends with a usage error. *)
C13_UsageErrorsTouchNoState ==
    Cmd(args) = "usage" =>
        /\ calls = <<>>
        /\ gov = govBefore
        /\ <<fileExists, fileDoc>> = fileBefore
        /\ pc \in {"idle", "parse_args", "done"}
        /\ Ended => status = "usage"

\* an invocation with both flags has ended
C13_Witness ==
    /\ args.enable
    /\ args.disable
    /\ pc = "done"
    /\ status = "usage"

----------------------------------------------------------------------------
(* C14: restore validates per entry at apply time, with no rollback.  In   *)
(* an enable run without mode whose snapshot s has its first unsupported   *)
(* entry at core k, loading s raises nothing; the set-governor calls       *)
(* issued are (0, s[0]), (1, s[1]), ... and never reach core k; the run    *)
(* does not complete; and when it ends with the unsupported-governor       *)
(* error, which is raised by the query for core k, it has issued exactly   *)
(* k calls and cores 0..k-1 keep the governors just applied while the      *)
(* others keep the ones they had.                                          *)
BadEntries(s) == {j \in 1..Len(s) : s[j] \notin supported}

\* the core index (from 0) of the first entry of s that is not supported
FirstBad(s) == (CHOOSE j \in BadEntries(s) : \A h \in BadEntries(s) : j <= h) - 1

C14_RestoreValidatesPerEntry ==
    (/\ Cmd(args) = "restore"
     /\ fileBefore[1]
     /\ JsonWellFormed(fileBefore[2])
     /\ BadEntries(JsonLoad(fileBefore[2])) # {}) =>
        LET s == JsonLoad(fileBefore[2])
            k == FirstBad(s)
        IN  /\ Len(SetCalls) <= k
            /\ \A j \in 1..Len(SetCalls) :
                  SetCalls[j].cpu = j - 1 /\ SetCalls[j].gov = s[j]
            /\ status \notin {"ok", "notfound", "usage"}
            /\ (Len(calls) > 0 /\ calls[Len(calls)].op = "open_r") =>
                  /\ status \in {"running", "killed"}
                  /\ settings = s
            /\ status = "unsupported" =>
                  /\ Len(SetCalls) = k
                  /\ calls[Len(calls)].op = "query"
                  /\ calls[Len(calls)].cpu = k
                  /\ calls[Len(calls)].gov = s[k + 1]
                  /\ Len(gov) = Len(govBefore)
                  /\ \A i \in 1..Len(gov) :
                        gov[i] = IF i <= k THEN s[i] ELSE govBefore[i]

\* a restore changed core 0 and was then refused the entry of core 1
C14_Witness ==
    /\ Cmd(args) = "restore"
    /\ pc = "done"
    /\ status = "unsupported"
    /\ Len(SetCalls) = 1
    /\ gov # govBefore
    /\ curCpu = 1

----------------------------------------------------------------------------
(* C15: every error is terminal.  A call that raised, a query that does    *)
(* not list the governor, and a missing snapshot are each the last         *)
(* external effect of their invocation, which is then over: no query, no   *)
(* set-governor call and no file access follows, a failed set-governor     *)
(* call is not repeated, and no call is issued for a core after the one    *)
(* the failure occurred on.                                                *)
ErrorStatuses == {"usage", "unsupported", "notfound", "failed"}

CallFailed(c) == c.op = "query_failed" \/ (c.op # "query" /\ Len(c.res) > 0)

CallRefused(c) == c.op = "query" /\ ~InSeq(c.gov, c.res)

C15_EveryErrorIsTerminal ==
    /\ status \in ErrorStatuses => pc = "done"
    /\ \A i \in 1..Len(calls) :
          (CallFailed(calls[i]) \/ CallRefused(calls[i])) =>
              /\ i = Len(calls)
              /\ pc = "done"
              /\ status = IF CallFailed(calls[i]) THEN "failed" ELSE "unsupported"
              /\ \A j \in 1..Len(calls) : calls[j].cpu <= calls[i].cpu
    /\ status = "failed" => (Len(calls) > 0 /\ CallFailed(calls[Len(calls)]))
    /\ status = "unsupported" => (Len(calls) > 0 /\ CallRefused(calls[Len(calls)]))
    /\ status = "notfound" => (Len(calls) = 1 /\ calls[1].op = "exists")
    /\ status = "usage" => calls = <<>>
    /\ \A i \in 1..Len(calls), j \in 1..Len(calls) :
          (i < j /\ calls[i].op = "set" /\ calls[j].op = "set") =>
              calls[i].cpu < calls[j].cpu

\* the set-governor call for core 0 of a two-entry restore has failed
C15_Witness ==
    /\ Cmd(args) = "restore"
    /\ pc = "done"
    /\ status = "failed"
    /\ Len(settings) >= 2
    /\ calls[Len(calls)].op = "set"
    /\ calls[Len(calls)].cpu = 0

----------------------------------------------------------------------------
(* C16: the supported-governor query runs once per apply and is never      *)
(* cached.  Every set-governor call comes directly after a successful      *)
(* query made for the same scope, and every query is followed by nothing   *)
(* but its own set-governor call; a completed restore of N entries has     *)
(* issued, after finding and loading the file, query and set alternately   *)
(* for cores 0..N-1; an all-cores apply performs one query.                *)
IsQueryAttempt(c) == c.op \in {"query", "query_failed"}

C16_QueryOncePerApply ==
    /\ \A i \in 1..Len(calls) :
          /\ calls[i].op = "set" =>
                (i > 1 /\ calls[i - 1].op = "query" /\ calls[i - 1].cpu = calls[i].cpu)
          /\ (IsQueryAttempt(calls[i]) /\ i < Len(calls)) =>
                (calls[i].op = "query" /\ calls[i + 1].op = "set")
    /\ (Cmd(args) = "restore" /\ pc = "done" /\ status = "ok") =>
          /\ Len(calls) = 2 + 2 * Len(settings)
          /\ calls[1].op = "exists"
          /\ calls[2].op = "open_r"
          /\ \A n \in 1..Len(settings) :
                /\ calls[2 * n + 1].op = "query"
                /\ calls[2 * n + 1].cpu = n - 1
                /\ calls[2 * n + 2].op = "set"
                /\ calls[2 * n + 2].cpu = n - 1
    /\ Cmd(args) \in {"disable", "enable_mode"} =>
          /\ Len(SelectSeq(calls, IsQueryAttempt)) <= 1
          /\ \A i \in 1..Len(calls) : IsQueryAttempt(calls[i]) => calls[i].cpu = NoCpu
          /\ (pc = "done" /\ status = "ok") => Len(SelectSeq(calls, IsQuery)) = 1

\* a completed restore of two entries: two queries, two set-governor calls
C16_Witness ==
    /\ Cmd(args) = "restore"
    /\ pc = "done"
    /\ status = "ok"
    /\ Len(settings) >= 2
    /\ Len(SelectSeq(calls, IsQuery)) = Len(settings)

----------------------------------------------------------------------------
(* C17: disable writes the snapshot before validating "performance".  On a *)
(* machine that does not support "performance" a disable run never         *)
(* completes, issues no set-governor call and changes no core's governor;  *)
(* when a disable run has ended because "performance" is unsupported or    *)
(* because the supported-governor query failed, its snapshot write came    *)
(* before that query and the file holds the governors the cores had, and   *)
(* still have.                                                             *)
C17_DisableWritesBeforeValidating ==
    Cmd(args) = "disable" =>
        /\ "performance" \notin supported =>
              /\ status # "ok"
              /\ ~HasCall("set")
              /\ gov = govBefore
              /\ HasCall("query") => status = "unsupported"
        /\ (/\ pc = "done"
            /\ \/ status = "unsupported"
               \/ status = "failed" /\ calls[Len(calls)].op = "query_failed") =>
              /\ Len(calls) >= 2
              /\ calls[Len(calls) - 1].op = "write"
              /\ fileExists
              /\ fileDoc = JsonDump(govBefore)
              /\ ~HasCall("set")
              /\ gov = govBefore

\* a refused disable has replaced the snapshot file it found
C17_Witness ==
    /\ Cmd(args) = "disable"
    /\ pc = "done"
    /\ status = "unsupported"
    /\ fileBefore[1]
    /\ fileBefore[2] # fileDoc
    /\ Len(gov) > 0

----------------------------------------------------------------------------
(* C18: restore is idempotent.  An enable run without mode directly after  *)
(* a completed one is not refused and changes neither the snapshot file    *)
(* nor, at any point, a core's governor; when it completes it has loaded   *)
(* the same settings and issued the same sequence of set-governor calls as *)
(* the first run.                                                          *)
C18_RestoreIdempotent ==
    (Cmd(args) = "restore" /\ prev.cmd = "restore" /\ prev.status = "ok") =>
        /\ status \notin {"usage", "unsupported", "notfound"}
        /\ <<fileExists, fileDoc>> = fileBefore
        /\ gov = govBefore
        /\ (pc = "done" /\ status = "ok") =>
              /\ settings = prev.settings
              /\ Len(SetCalls) = Len(prev.sets)
              /\ \A k \in 1..Len(SetCalls) : SetCalls[k] = prev.sets[k]
              /\ Len(SetCalls) = Len(settings)

\* two completed restores in a row of a snapshot of two different governors
C18_Witness ==
    /\ Cmd(args) = "restore"
    /\ pc = "done"
    /\ status = "ok"
    /\ prev.cmd = "restore"
    /\ prev.status = "ok"
    /\ Len(SetCalls) >= 2
    /\ SetCalls[1].gov # SetCalls[2].gov
    /\ prev.govBefore # gov

====
